---- MODULE Spec2Model ----
(***************************************************************************)
(* One invocation of the handler returned by createSendMailHandler         *)
(* (src/src/sendMailHandler.ts): body extraction, schema validation,       *)
(* reCAPTCHA verification, mail dispatch and the response passed to the    *)
(* completion callback.                                                    *)
(***************************************************************************)
EXTENDS Integers, Sequences, FiniteSets, TLC

VARIABLES
    event,        \* the APIGatewayEvent: headers and body
    config,       \* the SendMailConfig captured by the handler
    pc,           \* position of the async handler
    body,         \* the PostBody produced by extraction
    verified,     \* how the reCAPTCHA stage ended
    mailOptions,  \* the SendMailOptions built for the transporter
    calls,        \* outbound network calls made so far, in order
    responses,    \* arguments of every cb(...) call so far, in order
    caught        \* the error caught by the handler's catch block

vars == <<event, config, pc, body, verified, mailOptions, calls, responses, caught>>

(* Largest number of file parts in a multipart body and of entries in a JSON
   "files" array. *)
MaxFiles == 1

----------------------------------------------------------------------------
(* JSON values, as far as the handler can tell them apart. *)

Absent == "<absent>"        \* the property is not in the object
NonString == "<nonstring>"  \* a JSON value that is not a string (5, null, {})

IsString(v) == v \notin {Absent, NonString}

Required == <<"name", "email", "subject", "message", "recaptcha">>

(* The characters of the e-mail strings the model draws from. *)
Chars(s) ==
    CASE s = "jane" -> <<"j", "a", "n", "e">>
      [] s = "a@b" -> <<"a", "@", "b">>
      [] s = "a@b.c" -> <<"a", "@", "b", ".", "c">>
      [] OTHER -> <<>>

EmailStrings == {"jane", "a@b", "a@b.c"}

(* files as the handler sees it: absent, a falsy value (null, "", 0), a truthy
   value that is no array (a string, a number, an object), or an array whose
   items are attachment records or null. *)
FileRec == "file"
NullItem == "null"

FilesAbsent == [t |-> "absent", items |-> <<>>]
FilesFalsy == [t |-> "falsy", items |-> <<>>]
FilesScalar == [t |-> "scalar", items |-> <<>>]
FilesArray(items) == [t |-> "array", items |-> items]

SeqsUpTo(S, n) == UNION {[1..k -> S] : k \in 0..n}

JsonFiles ==
    {FilesAbsent, FilesFalsy, FilesScalar}
        \cup {FilesArray(s) : s \in SeqsUpTo({FileRec, NullItem}, MaxFiles)}

Repeat(x, n) == [i \in 1..n |-> x]

Count(seq, x) == Cardinality({i \in 1..Len(seq) : seq[i] = x})

----------------------------------------------------------------------------
(* The request. *)

NoHeader == "<none>"
HeaderKeys == {"content-type", "Content-Type", "CONTENT-TYPE"}
HeaderValues == {"application/json", "multipart/form-data; boundary=b"}

(* headers: at most one content-type header, under one of three casings. *)
Headers ==
    {[k \in HeaderKeys |-> NoHeader]}
        \cup {[k \in HeaderKeys |-> IF k = key THEN v ELSE NoHeader] :
                key \in HeaderKeys, v \in HeaderValues}

(* A JSON document: an object with the five fields and files, or a value that
   is no object (null, a number, a string, an array). *)
Object(n, e, s, m, r, f) ==
    [kind |-> "object", name |-> n, email |-> e, subject |-> s,
     message |-> m, recaptcha |-> r, files |-> f]

NonObject == [kind |-> "nonobject", name |-> Absent, email |-> Absent,
              subject |-> Absent, message |-> Absent, recaptcha |-> Absent,
              files |-> FilesAbsent]

NoBody == [kind |-> "none", name |-> Absent, email |-> Absent,
           subject |-> Absent, message |-> Absent, recaptcha |-> Absent,
           files |-> FilesAbsent]

JsonDocs ==
    {NonObject} \cup
    {Object(n, e, s, m, r, f) :
        n \in {Absent, NonString, "Jane"},
        e \in {Absent, NonString} \cup EmailStrings,
        s \in {Absent, NonString, "Hi"},
        m \in {Absent, "hey"},
        r \in {Absent, "tok"},
        f \in JsonFiles}

(* A multipart form: its text fields are strings or absent, a text field may
   be called "files", and it carries 0..MaxFiles file parts. *)
Form(n, e, s, m, r, ff, parts) ==
    [name |-> n, email |-> e, subject |-> s, message |-> m, recaptcha |-> r,
     filesField |-> ff, parts |-> parts]

Forms ==
    {Form(n, e, s, m, r, ff, p) :
        n \in {Absent, "Jane"},
        e \in {Absent} \cup EmailStrings,
        s \in {Absent, "Hi"},
        m \in {Absent, "hey"},
        r \in {Absent, "tok"},
        ff \in {Absent, "", "x"},
        p \in 0..MaxFiles}

NoForm == Form(Absent, Absent, Absent, Absent, Absent, Absent, 0)

(* event.body: null, text that is neither JSON nor a multipart stream with the
   declared boundary, the text of a JSON document, or a multipart stream. *)
Bodies ==
    {[fmt |-> "null", doc |-> NoBody, form |-> NoForm],
     [fmt |-> "garbage", doc |-> NoBody, form |-> NoForm]}
        \cup {[fmt |-> "json", doc |-> d, form |-> NoForm] : d \in JsonDocs}
        \cup {[fmt |-> "multipart", doc |-> NoBody, form |-> f] : f \in Forms}

Events == [headers : Headers, body : Bodies]

NoSecret == "<undefined>"
Configs ==
    [skipRecaptcha : BOOLEAN, disableSend : BOOLEAN,
     recaptchaSecret : {NoSecret, "", "s3cret"},
     senderEmail : {"a@b.com"}, recipientEmail : {"c@d.com"}]


----------------------------------------------------------------------------
(* Schema validation: ajv.compile(schema) with format "email". *)

IndexOfAt(cs) == {i \in 1..Len(cs) : cs[i] = "@"}

(* atoms (or labels) separated by single dots, none of them empty *)
DotSeparated(cs) ==
    /\ Len(cs) > 0
    /\ cs[1] # "."
    /\ cs[Len(cs)] # "."
    /\ \A i \in 1..(Len(cs) - 1) : ~(cs[i] = "." /\ cs[i + 1] = ".")

(* format "email": local@domain, the domain with at least two labels *)
IsEmail(s) ==
    LET cs == Chars(s)
        ats == IndexOfAt(cs)
    IN  /\ Cardinality(ats) = 1
        /\ LET at == CHOOSE i \in ats : TRUE
               local == SubSeq(cs, 1, at - 1)
               domain == SubSeq(cs, at + 1, Len(cs))
           IN  /\ DotSeparated(local)
               /\ DotSeparated(domain)
               /\ \E i \in 1..Len(domain) : domain[i] = "."

RequiredMsg(f) ==
    CASE f = "name" -> "must have required property 'name'"
      [] f = "email" -> "must have required property 'email'"
      [] f = "subject" -> "must have required property 'subject'"
      [] f = "message" -> "must have required property 'message'"
      [] f = "recaptcha" -> "must have required property 'recaptcha'"

TypeObjectMsg == "must be object"
TypeStringMsg == "must be string"
FormatEmailMsg == "must match format \"email\""
Valid == ""

Missing(doc) == {i \in 1..Len(Required) : doc[Required[i]] = Absent}
Min(S) == CHOOSE x \in S : \A y \in S : x <= y

(* the format keyword ignored: only the types are checked *)
PropertyErrorTypeOnly(doc, f) ==
    IF ~IsString(doc[f]) THEN TypeStringMsg ELSE Valid

(* the message of a property's first violated rule, Valid if it has none *)
PropertyError(doc, f) ==
    IF ~IsString(doc[f]) THEN TypeStringMsg
    ELSE IF f = "email" /\ ~IsEmail(doc[f]) THEN FormatEmailMsg
    ELSE Valid

BadProperties(doc) ==
    {i \in 1..Len(Required) : PropertyError(doc, Required[i]) # Valid}

(* the properties checked before "required" *)
FirstErrorPropertiesFirst(doc) ==
    IF doc.kind # "object" THEN TypeObjectMsg
    ELSE IF BadProperties(doc) # {}
         THEN PropertyError(doc, Required[Min(BadProperties(doc))])
    ELSE Valid

(* validate(body) followed by validate.errors[0].message: the type of the
   document, then "required" in the order of the required array, then the
   properties in the order the schema declares them. *)
FirstError(doc) ==
    IF doc.kind # "object" THEN TypeObjectMsg
    ELSE IF Missing(doc) # {} THEN RequiredMsg(Required[Min(Missing(doc))])
    ELSE IF BadProperties(doc) # {}
         THEN PropertyError(doc, Required[Min(BadProperties(doc))])
    ELSE Valid

----------------------------------------------------------------------------
(* Response Builder. *)

ResponseHeaders ==
    [ct |-> "application/json", cors |-> "*"]

NoField == "<no field>"

Error(text) == [message |-> text]

buildSuccessResponse(message) ==
    [statusCode |-> 200, headers |-> ResponseHeaders,
     body |-> [message |-> message, error |-> NoField]]

buildErrorResponse(err, message, statusCode) ==
    [statusCode |-> statusCode, headers |-> ResponseHeaders,
     body |-> [message |-> message, error |-> err.message]]

(* cb(null, response) *)
cb(response) == [err |-> "null", response |-> response]

MailSentMsg == "Mail sent successfully"
RecaptchaFailedMsg == "reCAPTCHA failed"
InternalErrorMsg == "Internal error, please try again later"

(* The texts of the faults the handler can catch. *)
JsonSyntaxError == "Unexpected end of JSON input"
StreamError == "Unexpected end of form"
MapTypeError == "body.files.map is not a function"
NullFileError == "Cannot read properties of null (reading 'filename')"
NetworkError == "connect ECONNREFUSED"
DecodeError == "Unexpected token < in JSON at position 0"
SesError == "Email address is not verified"

NoError == Error("<none>")


----------------------------------------------------------------------------
(* Body Extractor. *)

Truthy(v) == v \notin {NoHeader, NoSecret, Absent, ""}

(* event.headers["content-type"] || event.headers["Content-Type"] *)
ContentType(headers) ==
    IF Truthy(headers["content-type"]) THEN headers["content-type"]
    ELSE headers["Content-Type"]

(* contentType && contentType.includes("multipart/form-data") *)
IsMultipart(contentType) ==
    Truthy(contentType) /\ contentType = "multipart/form-data; boundary=b"

(* The "field" handler stores every text field under its own name, "files"
   included; the "file" handler pushes onto result.files when a file part
   ends, which is after all the fields of the one chunk written were stored. *)
FilesOfForm(form) ==
    IF form.filesField = Absent THEN FilesArray(Repeat(FileRec, form.parts))
    ELSE IF form.filesField = "" THEN FilesFalsy
    ELSE FilesScalar

(* result.files.push(...) on a string throws from the file stream's "end"
   listener, outside the promise and outside the handler's try block *)
PushThrows(form) == form.filesField # Absent /\ form.parts > 0

FormBody(form) ==
    Object(form.name, form.email, form.subject, form.message, form.recaptcha,
           FilesOfForm(form))

----------------------------------------------------------------------------
(* Captcha Verifier and Mail Dispatcher decisions. *)

(* secret !== null instead of !secret *)
SecretNotNull(secret) == TRUE

(* verifyRecaptchaToken: if (!secret) return true, without any request *)
SecretConfigured(secret) == Truthy(secret)

(* What the verification service can answer to the one request: a JSON body
   with success true, false or missing, a body that is no JSON, or a network
   error. *)
CaptchaReplies == {"true", "false", "nosuccess", "nonjson", "neterror"}

CaptchaRejects(reply) == reply \in {"nonjson", "neterror"}

CaptchaFault(reply) ==
    IF reply = "nonjson" THEN Error(DecodeError) ELSE Error(NetworkError)

(* verified === undefined instead of !verified *)
PassesUnlessMissing(reply) == reply # "nosuccess"

(* if (!verified) on the value of json.success *)
Passes(reply) == reply = "true"

(* if (body.files), then body.files.map(file => ({file.filename, ...})) *)
FilesTruthy(files) == files.t \in {"scalar", "array"}

MapThrows(files) ==
    \/ files.t = "scalar"
    \/ files.t = "array" /\ \E i \in 1..Len(files.items) : files.items[i] = NullItem

MapFault(files) ==
    IF files.t = "scalar" THEN Error(MapTypeError) ELSE Error(NullFileError)

NoAttachments == <<"<undefined>">>

BuildMailOptions(cfg, b) ==
    [from |-> cfg.senderEmail, to |-> cfg.recipientEmail, subject |-> b.subject,
     text |-> b.message, replyTo |-> b.email,
     attachments |-> IF FilesTruthy(b.files) THEN b.files.items ELSE NoAttachments]

NoMail == [from |-> Absent, to |-> Absent, subject |-> Absent, text |-> Absent,
           replyTo |-> Absent, attachments |-> NoAttachments]

(* the disableSend switch ignored *)
ShouldSendAlways(cfg) == TRUE

(* if (config.disableSend) ... else transporter.sendMail(mailOptions) *)
ShouldSend(cfg) == ~cfg.disableSend

MailReplies == {"accepted", "rejected"}

(* the caught fault's own text as the message *)
CatchResponseVerbatim(err) == buildErrorResponse(err, err.message, 500)

(* the catch block: cb(null, buildErrorResponse(err, generic, 500)) *)
CatchResponse(err) == buildErrorResponse(err, InternalErrorMsg, 500)

ValidationResponse(msg) == buildErrorResponse(Error(msg), msg, 400)

RecaptchaResponse ==
    buildErrorResponse(Error("Invalid reCAPTCHA"), RecaptchaFailedMsg, 400)

SuccessResponse == buildSuccessResponse(MailSentMsg)

----------------------------------------------------------------------------
(* The handler. *)

Init ==
    /\ event \in Events
    /\ config \in Configs
    /\ pc = "start"
    /\ body = NoBody
    /\ verified = "pending"
    /\ mailOptions = NoMail
    /\ calls = <<>>
    /\ responses = <<>>
    /\ caught = NoError

Respond(response) ==
    /\ responses' = Append(responses, cb(response))
    /\ pc' = "done"

Catch(err) ==
    /\ caught' = err
    /\ Respond(CatchResponse(err))

(* body = JSON.parse(event.body ?? "") *)
ExtractJson ==
    /\ pc = "start"
    /\ ~IsMultipart(ContentType(event.headers))
    /\ IF event.body.fmt = "json"
       THEN /\ body' = event.body.doc
            /\ pc' = "validating"
            /\ UNCHANGED <<responses, caught>>
       ELSE /\ Catch(Error(JsonSyntaxError))
            /\ UNCHANGED body
    /\ UNCHANGED <<event, config, verified, mailOptions, calls>>

(* body = await extractMultipart(event) *)
ExtractMultipart ==
    /\ pc = "start"
    /\ IsMultipart(ContentType(event.headers))
    /\ IF event.body.fmt # "multipart"
       THEN /\ Catch(Error(StreamError))
            /\ UNCHANGED body
       ELSE IF PushThrows(event.body.form)
       THEN /\ pc' = "crashed"
            /\ UNCHANGED <<body, responses, caught>>
       ELSE /\ body' = FormBody(event.body.form)
            /\ pc' = "validating"
            /\ UNCHANGED <<responses, caught>>
    /\ UNCHANGED <<event, config, verified, mailOptions, calls>>

(* const valid = validate(body); if (!valid) return cb(null, 400) *)
Validate ==
    /\ pc = "validating"
    /\ IF FirstError(body) # Valid
       THEN Respond(ValidationResponse(FirstError(body)))
       ELSE pc' = "verifying" /\ UNCHANGED responses
    /\ UNCHANGED <<event, config, body, verified, mailOptions, calls, caught>>

(* if (!config.skipRecaptcha) verified = await verifyRecaptchaToken(...) *)
Verify ==
    /\ pc = "verifying"
    /\ IF config.skipRecaptcha
       THEN verified' = "skipped" /\ pc' = "dispatching" /\ UNCHANGED calls
       ELSE IF ~SecretConfigured(config.recaptchaSecret)
       THEN verified' = "nosecret" /\ pc' = "dispatching" /\ UNCHANGED calls
       ELSE /\ calls' = Append(calls, "verify")
            /\ pc' = "awaitCaptcha"
            /\ UNCHANGED verified
    /\ UNCHANGED <<event, config, body, mailOptions, responses, caught>>

(* the verification request settles: resolve(json.success) or reject(err) *)
CaptchaReply ==
    /\ pc = "awaitCaptcha"
    /\ \E reply \in CaptchaReplies :
        /\ verified' = reply
        /\ IF CaptchaRejects(reply)
           THEN Catch(CaptchaFault(reply))
           ELSE IF ~Passes(reply)
           THEN Respond(RecaptchaResponse) /\ UNCHANGED caught
           ELSE pc' = "dispatching" /\ UNCHANGED <<responses, caught>>
    /\ UNCHANGED <<event, config, body, mailOptions, calls>>

(* mailOptions, attachments, then disableSend or transporter.sendMail *)
Dispatch ==
    /\ pc = "dispatching"
    /\ IF FilesTruthy(body.files) /\ MapThrows(body.files)
       THEN /\ Catch(MapFault(body.files))
            /\ UNCHANGED <<mailOptions, calls>>
       ELSE /\ mailOptions' = BuildMailOptions(config, body)
            /\ IF ShouldSend(config)
               THEN /\ calls' = Append(calls, "mail")
                    /\ pc' = "awaitMail"
                    /\ UNCHANGED <<responses, caught>>
               ELSE /\ Respond(SuccessResponse)
                    /\ UNCHANGED <<calls, caught>>
    /\ UNCHANGED <<event, config, body, verified>>

(* a rejected send tried a second time *)
MailReplyRetry ==
    /\ pc = "awaitMail"
    /\ \E reply \in MailReplies :
        IF reply = "rejected" /\ Count(calls, "mail") < 2
        THEN calls' = Append(calls, "mail") /\ UNCHANGED <<pc, responses, caught>>
        ELSE IF reply = "rejected"
        THEN Catch(Error(SesError)) /\ UNCHANGED calls
        ELSE Respond(SuccessResponse) /\ UNCHANGED <<caught, calls>>
    /\ UNCHANGED <<event, config, body, verified, mailOptions>>

(* await transporter.sendMail(mailOptions) settles *)
MailReply ==
    /\ pc = "awaitMail"
    /\ \E reply \in MailReplies :
        IF reply = "rejected"
        THEN Catch(Error(SesError))
        ELSE Respond(SuccessResponse) /\ UNCHANGED caught
    /\ UNCHANGED <<event, config, body, verified, mailOptions, calls>>

Next ==
    \/ ExtractJson
    \/ ExtractMultipart
    \/ Validate
    \/ Verify
    \/ CaptchaReply
    \/ Dispatch
    \/ MailReply

Spec == Init /\ [][Next]_vars

----------------------------------------------------------------------------
(* Vocabulary of the properties. *)

Terminated == pc \in {"done", "crashed"}

Answered == pc = "done" /\ Len(responses) = 1

Answer == responses[1].response

IsRequiredPropertyMsg(m) == \E i \in 1..Len(Required) : m = RequiredMsg(Required[i])

MissingRequired(b) == b.kind = "object" /\ Missing(b) # {}

FullyValid(b) ==
    /\ b.kind = "object"
    /\ \A i \in 1..Len(Required) : IsString(b[Required[i]])
    /\ IsEmail(b.email)

InvalidEmail(b) == b.kind = "object" /\ IsString(b.email) /\ ~IsEmail(b.email)

(* files is absent, falsy, or a sequence of attachment records *)
FilesAreRecords(b) ==
    \/ b.files.t \in {"absent", "falsy"}
    \/ b.files.t = "array" /\ \A i \in 1..Len(b.files.items) : b.files.items[i] = FileRec

IsSuccess(r) == r.statusCode = 200 /\ r.body.message = "Mail sent successfully"

IsError(r, status, message) == r.statusCode = status /\ r.body.message = message

Called(x) == Count(calls, x) > 0

----------------------------------------------------------------------------
(* C1: every invocation that ends has passed exactly one response to the
   completion callback, never none and never two. *)
C1_ExactlyOneResponse ==
    /\ Len(responses) <= 1
    /\ Terminated => Len(responses) = 1

(* C2: a payload that lacks one of the five required fields is answered with
   status 400 and a "must have required property" message, and no call to the
   captcha verifier or to the mail collaborator is made for it. *)
C2_MissingRequired ==
    MissingRequired(body) =>
        /\ calls = <<>>
        /\ pc \in {"validating", "done"}
        /\ pc = "done" =>
            /\ Len(responses) = 1
            /\ Answer.statusCode = 400
            /\ IsRequiredPropertyMsg(Answer.body.message)

C2_Witness ==
    /\ Answered
    /\ MissingRequired(body)
    /\ body.name = NonString
    /\ body.recaptcha = Absent
    /\ Answer.body.message = "must have required property 'recaptcha'"

(* C3 as stated: with disableSend = true every fully valid payload is answered
   200 "Mail sent successfully" and the mail collaborator is not invoked. *)
C3_Original ==
    (config.disableSend /\ FullyValid(body)) =>
        /\ ~Called("mail")
        /\ pc = "done" => Len(responses) = 1 /\ IsSuccess(Answer)

(* C3 amended: with disableSend = true the mail collaborator is never invoked,
   and a fully valid payload whose files are absent, falsy or a sequence of
   attachment records is answered 200 "Mail sent successfully" whenever the
   verification was skipped, had no secret, or was answered success: true. *)
C3_DisableSend ==
    config.disableSend =>
        /\ ~Called("mail")
        /\ pc # "awaitMail"
        /\ (/\ pc = "done"
            /\ FullyValid(body)
            /\ FilesAreRecords(body)
            /\ verified \in {"skipped", "nosecret", "true"})
           => Len(responses) = 1 /\ IsSuccess(Answer)

C3_Witness ==
    /\ config.disableSend
    /\ Answered
    /\ FullyValid(body)
    /\ verified = "true"
    /\ body.files = FilesArray(<<FileRec>>)
    /\ IsSuccess(Answer)
    /\ calls = <<"verify">>

(* C4 as stated: every payload whose email is a syntactically invalid string
   is answered 400 with the message must match format "email". *)
C4_Original ==
    (pc = "done" /\ InvalidEmail(body)) =>
        /\ Len(responses) = 1
        /\ IsError(Answer, 400, "must match format \"email\"")

(* C4 amended: every payload whose email is a syntactically invalid string is
   answered 400; the message is must match format "email" when no required
   field is missing and name is a string, which are the rules checked before
   the format of email. *)
C4_InvalidEmail ==
    InvalidEmail(body) =>
        /\ calls = <<>>
        /\ pc \in {"validating", "done"}
        /\ pc = "done" =>
            /\ Len(responses) = 1
            /\ Answer.statusCode = 400
            /\ (Missing(body) = {} /\ IsString(body.name))
                  => Answer.body.message = "must match format \"email\""

C4_Witness ==
    /\ Answered
    /\ body.kind = "object"
    /\ body.email = "a@b"
    /\ body.name = "Jane"
    /\ body.subject = NonString
    /\ Missing(body) = {}
    /\ IsError(Answer, 400, "must match format \"email\"")

(* C5: with a secret configured and skipRecaptcha = false, a validated payload
   for which the verification service answers success: false is answered 400
   "reCAPTCHA failed", and the mail collaborator is not invoked. *)
C5_ExplicitFalse ==
    verified = "false" =>
        /\ config.recaptchaSecret = "s3cret"
        /\ ~config.skipRecaptcha
        /\ FirstError(body) = Valid
        /\ pc = "done"
        /\ Len(responses) = 1
        /\ IsError(Answer, 400, "reCAPTCHA failed")
        /\ calls = <<"verify">>

C5_Witness ==
    /\ Answered
    /\ verified = "false"
    /\ FullyValid(body)
    /\ ~config.disableSend
    /\ IsError(Answer, 400, "reCAPTCHA failed")

(* C6: a fault during the verification (a network error, or an answer that is
   no JSON) is answered like an explicit false: 400 "reCAPTCHA failed". *)
C6_FaultLikeFalse ==
    (pc = "done" /\ verified \in {"nonjson", "neterror"}) =>
        /\ Len(responses) = 1
        /\ IsError(Answer, 400, "reCAPTCHA failed")

(* C7: the response to an invocation that ends in an extraction fault or in a
   dispatch fault carries no text of that fault in its body. *)
C7_NoFaultText ==
    (pc = "done" /\ caught.message \in {JsonSyntaxError, StreamError, SesError}) =>
        /\ Len(responses) = 1
        /\ Answer.body.message # caught.message
        /\ Answer.body.error # caught.message


(* C8: an invocation makes at most one call to the captcha verifier and at
   most one to the mail collaborator, the verifier first; the mail collaborator
   is called only for a validated payload whose verification was skipped or
   has completed with success, and never when the verification failed. *)
C8_OutboundCalls ==
    /\ Len(calls) <= 2
    /\ Count(calls, "verify") <= 1
    /\ Count(calls, "mail") <= 1
    /\ \A i, j \in 1..Len(calls) :
          (calls[i] = "verify" /\ calls[j] = "mail") => i < j
    /\ Called("mail") =>
          /\ body.kind = "object"
          /\ FirstError(body) = Valid
          /\ verified \in {"skipped", "nosecret", "true"}
          /\ Called("verify") <=> verified = "true"
    /\ verified \in {"false", "nosuccess", "nonjson", "neterror"} => ~Called("mail")

C8_Witness ==
    /\ Answered
    /\ calls = <<"verify", "mail">>
    /\ verified = "true"
    /\ caught.message = SesError

NoVerification == config.skipRecaptcha \/ config.recaptchaSecret = NoSecret

(* C9: with skipRecaptcha = true, or with no secret configured, no step of the
   invocation calls the verification service, and a validated payload goes
   from the verification stage straight to dispatch. *)
C9_NoVerificationCall ==
    [][NoVerification =>
          /\ Count(calls', "verify") = 0
          /\ pc' # "awaitCaptcha"
          /\ pc = "verifying" =>
                /\ pc' = "dispatching"
                /\ calls' = calls
                /\ responses' = responses]_vars

C9_Witness ==
    /\ config.skipRecaptcha
    /\ config.recaptchaSecret = "s3cret"
    /\ Answered
    /\ verified = "skipped"
    /\ calls = <<"mail">>
    /\ IsSuccess(Answer)

(* the request is parsed as JSON and its body is absent or is no JSON text *)
JsonFault ==
    /\ ContentType(event.headers) # "multipart/form-data; boundary=b"
    /\ event.body.fmt # "json"

(* the request is parsed as multipart and its body is absent or is no
   multipart stream *)
StreamFault ==
    /\ ContentType(event.headers) = "multipart/form-data; boundary=b"
    /\ event.body.fmt # "multipart"

(* C10: an extraction fault (a body that is no JSON, an absent body, a
   multipart stream error) and a fault of the mail collaborator are answered
   500 "Internal error, please try again later", through the callback's
   response argument with a null error, and the handler does not die of them. *)
C10_Faults500 ==
    /\ \A i \in 1..Len(responses) : responses[i].err = "null"
    /\ (JsonFault \/ StreamFault) => pc \in {"start", "done"}
    /\ (pc = "done" /\ (JsonFault \/ StreamFault \/ caught.message = SesError)) =>
          /\ Len(responses) = 1
          /\ IsError(Answer, 500, "Internal error, please try again later")
    /\ (pc = "done" /\ Called("mail") /\ ~IsSuccess(Answer)) =>
          /\ caught.message = SesError
          /\ IsError(Answer, 500, "Internal error, please try again later")

C10_Witness ==
    /\ Answered
    /\ StreamFault
    /\ event.body.fmt = "null"
    /\ caught.message = StreamError
    /\ IsError(Answer, 500, "Internal error, please try again later")


(* the payload has passed validate(body) *)
Validated(b) == b.kind = "object" /\ FirstError(b) = Valid

(* C11: a payload that has passed validation has its five required fields as
   strings and a files value that, when present (truthy, as the handler tests
   it), is a sequence of attachment records; the invocation ends without a
   fault from building the attachments. *)
C11_ValidatedPayloadShape ==
    (Validated(body) /\ pc = "done") =>
        /\ \A i \in 1..Len(Required) : IsString(body[Required[i]])
        /\ FilesTruthy(body.files) =>
              /\ body.files.t = "array"
              /\ \A i \in 1..Len(body.files.items) : body.files.items[i] = FileRec
        /\ caught.message \notin {MapTypeError, NullFileError}

(* the request carries a content-type header, under whatever casing of its
   key, that indicates multipart form data *)
DeclaredMultipart ==
    \E k \in HeaderKeys : event.headers[k] = "multipart/form-data; boundary=b"

(* C12: whatever the casing of the content-type header's key, a request that
   declares multipart form data is parsed as a multipart stream, and a request
   that declares JSON or declares nothing is parsed as JSON. *)
C12_HeaderAnyCasing ==
    pc # "start" =>
        /\ DeclaredMultipart =>
              /\ caught.message # JsonSyntaxError
              /\ event.body.fmt = "multipart" =>
                    \/ pc = "crashed"
                    \/ body = FormBody(event.body.form)
        /\ ~DeclaredMultipart =>
              /\ caught.message # StreamError
              /\ event.body.fmt = "json" => body = event.body.doc

====
